---------------------------- MODULE Spec2Model ----------------------------
(***************************************************************************)
(* Model of src/music/music-spectrum.py: the MusicSpectrum application.   *)
(*                                                                         *)
(*   pollSocket             timer slot: drains the ZeroMQ PULL socket,     *)
(*                          decodes the batch, commits self.csi            *)
(*   updateSpatialSpectrum  slot called by the chart: MUSIC spectrum of    *)
(*                          self.csi, written to the series and the axis   *)
(*                                                                         *)
(* A message is modelled by its byte length, the three header words (what  *)
(* struct.unpack reads from the first 12 bytes) and an id; the k-th        *)
(* complex64 value of its payload is the token <<id, k>>.  An ndarray is   *)
(* its shape and its row-major element sequence.  Floating-point results   *)
(* (eigenvalues, powers in dB) are drawn from small integer sets; +inf is  *)
(* the value Inf, larger than every finite level.                          *)
(***************************************************************************)
EXTENDS Integers, Sequences, FiniteSets, TLC

VARIABLES
    socket,            \* messages queued in the PULL socket, oldest first
    pc,                \* "idle" | "drain" (inside pollSocket's loop) | "crashed"
    messages,          \* pollSocket's local list `messages` (empty outside a call)
    entry_socket,      \* the socket's queue when the running pollSocket was called
    result,            \* how the last pollSocket call ended; was its batch empty
    csi,               \* self.csi: None or an array of shape (M, 1, 1, A, S)
    antennas_per_row,  \* self.antennas_per_row
    steering_vectors,  \* self.steering_vectors: shape of the steering matrix
    series,            \* the chart's line series (last data given to replace)
    axis_min,          \* the chart axis' min
    axis_max,          \* the chart axis' max
    msg,               \* decoder model:the message handed to the decoder
    decoded,           \* decoder model:what the loop body did with it
    eig_val,           \* subspace model:eigenvalues as <<re, im>> pairs
    order,             \* subspace model:np.argsort(eig_val)[::-1]
    Qn                 \* subspace model:eigenvector columns kept as noise subspace

vars == <<socket, pc, messages, entry_socket, result, csi, antennas_per_row,
          steering_vectors, series, axis_min, axis_max,
          msg, decoded, eig_val, order, Qn>>

appVars == <<socket, pc, messages, entry_socket, result, csi, antennas_per_row,
             steering_vectors, series, axis_min, axis_max>>
decVars == <<msg, decoded>>
eigVars == <<eig_val, order, Qn>>

---------------------------------------------------------------------------
(* Program constants *)

ANTENNAS_PER_ROW == 2
NumAngles == 1800
HeaderBytes == 12
ComplexBytes == 8

(* Bounds of the model *)

MaxBatch == 2      \* messages in flight (queued in the socket + already drained)
DbMax == 1         \* finite power levels are 0..DbMax
MaxDim == 2        \* decoder model:header words range over 0..MaxDim
MaxAnt == 3        \* subspace model:antenna counts 1..MaxAnt
MaxEig == 1        \* subspace model:real and imaginary parts range over 0..MaxEig

None == [none |-> TRUE]

---------------------------------------------------------------------------
(* Helpers on sequences *)

RECURSIVE SeqSum(_)
SeqSum(s) == IF s = <<>> THEN 0 ELSE Head(s) + SeqSum(Tail(s))

RECURSIVE Flatten(_)
Flatten(ss) == IF ss = <<>> THEN <<>> ELSE Head(ss) \o Flatten(Tail(ss))

Range(s) == {s[i] : i \in DOMAIN s}

---------------------------------------------------------------------------
(* The loop body of pollSocket, lines 41-54 *)

\* struct.unpack("III", msg[:12]): needs all 12 bytes, else struct.error
UnpackOk(m) == m.len >= HeaderBytes

\* msg[12:]: the bytes after the header (none when the message is shorter)
PayloadBytes(m) == IF m.len >= HeaderBytes THEN m.len - HeaderBytes ELSE 0

\* Mutant of FromBufferOk: trailing bytes are cut off instead of refused
FromBufferOkTruncating(m) == TRUE

\* np.frombuffer(msg[12:], dtype=np.complex64): ValueError unless the buffer
\* is a whole number of 8-byte elements
FromBufferOk(m) == PayloadBytes(m) % ComplexBytes = 0

FromBuffer(m) == [k \in 1..(PayloadBytes(m) \div ComplexBytes) |-> <<m.id, k>>]

\* data.reshape((n, c, s)): ValueError unless n*c*s is the element count
ReshapeOk(data, n, c, s) == n * c * s = Len(data)

Reshape(data, n, c, s) == [shape |-> <<n, c, s>>, flat |-> data]

\* One pass of the loop body over message m:
\*   "raise"  an exception leaves pollSocket (struct.error, or the ValueError
\*            of frombuffer, which is outside the try)
\*   "return" the except ValueError branch of the reshape: `return`
\*   "append" all_data.append(reshaped)
LoopBody(m) ==
    IF ~UnpackOk(m) THEN [kind |-> "raise"]
    ELSE IF ~FromBufferOk(m) THEN [kind |-> "raise"]
    ELSE IF ~ReshapeOk(FromBuffer(m), m.n, m.c, m.s) THEN [kind |-> "return"]
    ELSE [kind |-> "append", reshaped |-> Reshape(FromBuffer(m), m.n, m.c, m.s)]

\* for msg in messages: ..., with all_data the list built so far
RECURSIVE ForLoop(_, _)
ForLoop(msgs, all_data) ==
    IF msgs = <<>> THEN [kind |-> "done", all_data |-> all_data]
    ELSE LET r == LoopBody(Head(msgs)) IN
         IF r.kind = "append"
         THEN ForLoop(Tail(msgs), Append(all_data, r.reshaped))
         ELSE [kind |-> r.kind, all_data |-> all_data]

\* np.concatenate(all_data, axis=0): every array must agree on the other axes
ConcatenateOk(all_data) ==
    \A i, j \in DOMAIN all_data :
        /\ all_data[i].shape[2] = all_data[j].shape[2]
        /\ all_data[i].shape[3] = all_data[j].shape[3]

Concatenate(all_data) ==
    [shape |-> << SeqSum([i \in DOMAIN all_data |-> all_data[i].shape[1]]),
                  all_data[1].shape[2], all_data[1].shape[3] >>,
     flat  |-> Flatten([i \in DOMAIN all_data |-> all_data[i].flat])]

\* stacked[:, np.newaxis, np.newaxis, :, :]
NewAxes(stacked) ==
    [shape |-> << stacked.shape[1], 1, 1, stacked.shape[2], stacked.shape[3] >>,
     flat  |-> stacked.flat]

\* np.exp(-1.0j * np.outer(np.pi * np.sin(scanning_angles), np.arange(A))):
\* one row per scanning angle, one column per antenna
SteeringVectors(A) == <<NumAngles, A>>

\* lines 67-69: the stored antenna count after the commit
NewAntennas(num_channels, stored) ==
    IF num_channels # stored THEN num_channels ELSE stored

\* Mutant of NewSteering: the steering matrix is not rebuilt
NewSteeringStale(num_channels, stored, steering) == steering

\* lines 67-69: the steering matrix after the commit
NewSteering(num_channels, stored, steering) ==
    IF num_channels # stored THEN SteeringVectors(num_channels) ELSE steering

\* Mutant of ProcessBatch: a batch that yields no frame blanks the buffer
ProcessBatchBlanking(msgs) ==
    LET r == ForLoop(msgs, <<>>) IN
    IF r.kind = "raise" THEN [kind |-> "raise"]
    ELSE IF r.kind = "return" \/ r.all_data = <<>>
         THEN [kind |-> "commit", csi |-> None, num_channels |-> ANTENNAS_PER_ROW]
    ELSE IF ~ConcatenateOk(r.all_data) THEN [kind |-> "raise"]
    ELSE [kind |-> "commit",
          csi |-> NewAxes(Concatenate(r.all_data)),
          num_channels |-> msgs[Len(msgs)].c]

\* The result of pollSocket on a drained batch: what it does to the state
\*   kind "raise"  : uncaught exception, nothing assigned
\*   kind "return" : early return, nothing assigned
\*   kind "commit" : self.csi assigned, antenna count / steering matrix updated
ProcessBatch(msgs) ==
    LET r == ForLoop(msgs, <<>>) IN
    IF r.kind # "done" THEN [kind |-> r.kind]
    ELSE IF r.all_data = <<>> THEN [kind |-> "return"]
    ELSE IF ~ConcatenateOk(r.all_data) THEN [kind |-> "raise"]
    ELSE [kind |-> "commit",
          csi |-> NewAxes(Concatenate(r.all_data)),
          num_channels |-> msgs[Len(msgs)].c]

---------------------------------------------------------------------------
(* The messages the producer sends in the application model *)

Frame(id, len, n, c, s) == [id |-> id, len |-> len, n |-> n, c |-> c, s |-> s]

Msgs ==
    { Frame(1, 28, 1, 2, 1),    \* one measurement, 2 antennas
      Frame(2, 20, 1, 1, 1),    \* one measurement, 1 antenna
      Frame(3, 12, 0, 2, 1),    \* measurement_count = 0, empty payload
      Frame(4, 36, 1, 2, 1),    \* header declares 2 values, payload holds 3
      Frame(5,  8, 0, 0, 0) }   \* shorter than the header

---------------------------------------------------------------------------
(* Power levels *)

Inf == DbMax + 1
DbVals == 0..DbMax
DbAll == DbVals \cup {Inf}

\* x - 1 in floating point: inf - 1 = inf
MinusOne(x) == IF x = Inf THEN Inf ELSE x - 1

\* Python's max(a, b): b only if b > a
PyMax(a, b) == IF b > a THEN b ELSE a

\* line 132: the value given to axis.setMin
NewAxisMin(lo) == MinusOne(lo)

\* Mutant of NewAxisMax: the previous ceiling is not kept
NewAxisMaxFresh(hi, prev) == hi

\* line 133: the value given to axis.setMax
NewAxisMax(hi, prev) == PyMax(hi, prev)

\* lines 117-130: the (min, max) of spatial_spectrum_log for buffer b of shape
\* (M, 1, 1, A, S).  With A = 1 the noise subspace has no column, the
\* projection norm is 0 at every angle and the power is +inf everywhere.  A
\* buffer without elements gives the zero covariance matrix, unit eigenvectors
\* and a flat finite spectrum.  Otherwise the levels depend on the CSI values.
SpectrumRange(b) ==
    IF b.shape[4] <= 1 THEN { <<Inf, Inf>> }
    ELSE IF b.flat = <<>> THEN { <<v, v>> : v \in DbVals }
    ELSE { p \in DbAll \X DbAll : p[1] <= p[2] }

EmptySeries == [points |-> 0, lo |-> 0, hi |-> 0]

---------------------------------------------------------------------------
(* The application *)

AppInit ==
    /\ socket = <<>>
    /\ pc = "idle"
    /\ messages = <<>>
    /\ entry_socket = <<>>
    /\ result = [kind |-> "none", empty |-> TRUE]
    /\ csi = None
    /\ antennas_per_row = ANTENNAS_PER_ROW
    /\ steering_vectors = SteeringVectors(ANTENNAS_PER_ROW)
    /\ series = EmptySeries
    /\ axis_min = 0
    /\ axis_max = 0

\* The producer pushes a message; the socket's I/O thread queues it at any time
Send ==
    /\ pc # "crashed"
    /\ Len(socket) + Len(messages) < MaxBatch
    /\ \E m \in Msgs : socket' = Append(socket, m)
    /\ UNCHANGED <<pc, messages, entry_socket, result, csi, antennas_per_row,
                   steering_vectors, series, axis_min, axis_max>>

\* The timer fires: pollSocket starts with messages = []
TimerTick ==
    /\ pc = "idle"
    /\ pc' = "drain"
    /\ messages' = <<>>
    /\ entry_socket' = socket
    /\ UNCHANGED <<socket, result, csi, antennas_per_row, steering_vectors,
                   series, axis_min, axis_max>>

\* One iteration of the drain loop that receives a message
Recv ==
    /\ pc = "drain"
    /\ socket # <<>>
    /\ messages' = Append(messages, Head(socket))
    /\ socket' = Tail(socket)
    /\ UNCHANGED <<pc, entry_socket, result, csi, antennas_per_row,
                   steering_vectors, series, axis_min, axis_max>>

\* recv raises zmq.Again: the loop breaks and the rest of pollSocket runs
Process ==
    /\ pc = "drain"
    /\ socket = <<>>
    /\ LET r == ProcessBatch(messages) IN
       /\ pc' = IF r.kind = "raise" THEN "crashed" ELSE "idle"
       /\ result' = [kind |-> r.kind, empty |-> messages = <<>>]
       /\ csi' = IF r.kind = "commit" THEN r.csi ELSE csi
       /\ antennas_per_row' =
              IF r.kind = "commit"
              THEN NewAntennas(r.num_channels, antennas_per_row)
              ELSE antennas_per_row
       /\ steering_vectors' =
              IF r.kind = "commit"
              THEN NewSteering(r.num_channels, antennas_per_row, steering_vectors)
              ELSE steering_vectors
    /\ messages' = <<>>
    /\ entry_socket' = <<>>
    /\ UNCHANGED <<socket, series, axis_min, axis_max>>

\* updateSpatialSpectrum(series, axis); with self.csi None it returns at once
\* (a stuttering step)
updateSpatialSpectrum ==
    /\ pc = "idle"
    /\ csi # None
    /\ \E p \in SpectrumRange(csi) :
          /\ axis_min' = NewAxisMin(p[1])
          /\ axis_max' = NewAxisMax(p[2], axis_max)
          /\ series' = [points |-> NumAngles, lo |-> p[1], hi |-> p[2]]
    /\ UNCHANGED <<socket, pc, messages, entry_socket, result, csi,
                   antennas_per_row, steering_vectors>>

Init ==
    /\ AppInit
    /\ msg = Frame(0, 0, 0, 0, 0)
    /\ decoded = [kind |-> "none"]
    /\ eig_val = <<>>
    /\ order = <<>>
    /\ Qn = <<>>

Next ==
    \/ Send /\ UNCHANGED <<decVars, eigVars>>
    \/ TimerTick /\ UNCHANGED <<decVars, eigVars>>
    \/ Recv /\ UNCHANGED <<decVars, eigVars>>
    \/ Process /\ UNCHANGED <<decVars, eigVars>>
    \/ updateSpatialSpectrum /\ UNCHANGED <<decVars, eigVars>>

Spec == Init /\ [][Next]_vars

---------------------------------------------------------------------------
(* The decoder alone: the loop body of pollSocket applied to one message,   *)
(* for every header triple over 0..MaxDim and every length up to one        *)
(* element more than the largest payload                                     *)

MaxLen == HeaderBytes + ComplexBytes * (MaxDim * MaxDim * MaxDim + 1)

DecMsgs == { Frame(0, len, n, c, s) : len \in 0..MaxLen,
                                      n \in 0..MaxDim, c \in 0..MaxDim, s \in 0..MaxDim }

DecInit ==
    /\ AppInit
    /\ msg \in DecMsgs
    /\ decoded = [kind |-> "none"]
    /\ eig_val = <<>>
    /\ order = <<>>
    /\ Qn = <<>>

\* pollSocket on the batch [msg]: the loop body, then the rest of the slot
Decode ==
    /\ decoded.kind = "none"
    /\ decoded' = [kind |-> LoopBody(msg).kind,
                   batch |-> ProcessBatch(<<msg>>).kind]
    /\ UNCHANGED <<msg, appVars, eigVars>>

DecNext == Decode

SpecDecode == DecInit /\ [][DecNext]_vars

---------------------------------------------------------------------------
(* The subspace separation alone: lines 123-126 applied to every list of    *)
(* 1..MaxAnt eigenvalues with parts in 0..MaxEig                            *)

EigVals == (0..MaxEig) \X (0..MaxEig)

EigLists == UNION { [1..A -> EigVals] : A \in 1..MaxAnt }

Perms(A) == { p \in [1..A -> 1..A] : \A i, j \in 1..A : p[i] = p[j] => i = j }

\* numpy's order of complex numbers: by real part, then by imaginary part
LexLE(x, y) == x[1] < y[1] \/ (x[1] = y[1] /\ x[2] <= y[2])

\* np.argsort(v) with the default kind ("quicksort", not stable): an index
\* permutation that sorts v; the order among equal elements is unspecified
ArgSort(v) ==
    { p \in Perms(Len(v)) :
        \A i \in 1..(Len(v) - 1) : LexLE(v[p[i]], v[p[i + 1]]) }

\* p[::-1]
Reversed(p) == [i \in 1..Len(p) |-> p[Len(p) + 1 - i]]

\* eig_vec[:, order][:, 1:]: the columns of eig_vec kept, by original index
NoiseColumns(ord) == SubSeq(ord, 2, Len(ord))

EigInit ==
    /\ AppInit
    /\ msg = Frame(0, 0, 0, 0, 0)
    /\ decoded = [kind |-> "none"]
    /\ eig_val \in EigLists
    /\ order = <<>>
    /\ Qn = <<>>

Separate ==
    /\ order = <<>>
    /\ \E p \in ArgSort(eig_val) :
          /\ order' = Reversed(p)
          /\ Qn' = NoiseColumns(Reversed(p))
    /\ UNCHANGED <<eig_val, appVars, decVars>>

EigNext == Separate

SpecEig == EigInit /\ [][EigNext]_vars

---------------------------------------------------------------------------
(* Properties *)

\* The acceptance predicate of the wire format: the length is the header plus
\* 8 bytes for each of the n*c*s declared values
WellFormed(m) == m.len = HeaderBytes + ComplexBytes * m.n * m.c * m.s

\* Messages whose payload is a whole number of values that differs from n*c*s
ReshapeMismatch(m) ==
    /\ m.len >= HeaderBytes
    /\ (m.len - HeaderBytes) % ComplexBytes = 0
    /\ ~WellFormed(m)

\* The payload values of message m
Values(m) == { <<m.id, k>> : k \in 1..(m.n * m.c * m.s) }

\* The well-formed messages of a batch, in arrival order
GoodOf(msgs) == SelectSeq(msgs, WellFormed)

\* All well-formed messages of a batch declare the same (channel, sample) counts
SameShape(msgs) ==
    \A a, b \in Range(GoodOf(msgs)) : a.c = b.c /\ a.s = b.s

\* The step of pollSocket that ends the call (the drain loop has exited)
IngestEnds == pc = "drain" /\ pc' # "drain"

\* C1: an ingest that finds no queued message, or whose batch holds only
\* malformed messages, leaves self.csi, self.antennas_per_row and
\* self.steering_vectors as they were, from the call to its end.
C1_LastGoodValue ==
    [][ (pc = "drain" /\ (pc' = "drain" \/ GoodOf(messages) = <<>>))
          => /\ csi' = csi
             /\ antennas_per_row' = antennas_per_row
             /\ steering_vectors' = steering_vectors ]_vars

\* C1 witness: an ingest of a non-empty batch of malformed messages has ended
\* normally and a buffer committed earlier is still held.
C1_Witness ==
    /\ pc = "idle"
    /\ result.kind = "return"
    /\ ~result.empty
    /\ csi # None

\* C2 (as claimed): in a batch that holds a reshape-inconsistent message, every
\* well-formed message, before or after the bad one, contributes its values to
\* the buffer committed by that ingest.
C2_SkipOnlyBadMessage ==
    [][ ( /\ IngestEnds
          /\ \E i \in DOMAIN messages : ReshapeMismatch(messages[i])
          /\ \A i \in DOMAIN messages :
                 WellFormed(messages[i]) \/ ReshapeMismatch(messages[i])
          /\ GoodOf(messages) # <<>>
          /\ SameShape(messages) )
          => /\ csi' # None
             /\ \A m \in Range(GoodOf(messages)) :
                    Values(m) \subseteq Range(csi'.flat) ]_vars

\* C3 (as claimed): pollSocket never ends with an uncaught error.
C3_IngestNeverFails == pc # "crashed"

\* C4: the loop body appends a message as a frame exactly when its length is
\* 12 + 8 * n * c * s, and a message of any other length never gets a buffer
\* committed.
C4_AcceptancePredicate ==
    decoded.kind # "none"
        => /\ (decoded.kind = "append") <=> WellFormed(msg)
           /\ (decoded.batch = "commit") <=> WellFormed(msg)

\* C4 witness: a header with a zero count and exactly 12 bytes was accepted.
C4_Witness ==
    /\ decoded.kind = "append"
    /\ msg.len = HeaderBytes
    /\ msg.c > 0

\* C5: the buffer is rectangular with one antenna count, equal to the stored
\* count and to the column count of the steering matrix; an ingest that
\* replaces the buffer takes frames of one antenna count only and leaves the
\* stored count and the steering matrix at that count.
C5_BufferConsistent ==
    /\ steering_vectors = SteeringVectors(antennas_per_row)
    /\ csi # None
         => /\ csi.shape[4] = antennas_per_row
            /\ steering_vectors[2] = csi.shape[4]
            /\ Len(csi.flat) = csi.shape[1] * csi.shape[4] * csi.shape[5]

C5_CommitStep ==
    (IngestEnds /\ csi' # csi)
        => /\ \A m \in Range(messages) : m.c = csi'.shape[4]
           /\ antennas_per_row' = csi'.shape[4]
           /\ steering_vectors' = SteeringVectors(csi'.shape[4])

ExpectedCsi(msgs) ==
    LET g == GoodOf(msgs) IN
    [shape |-> << SeqSum([i \in DOMAIN g |-> g[i].n]), 1, 1, g[1].c, g[1].s >>,
     flat  |-> Flatten([i \in DOMAIN g |->
                          [k \in 1..(g[i].n * g[i].c * g[i].s) |-> <<g[i].id, k>>]])]

\* C6 (as claimed): when at least one message of the batch decodes, the buffer
\* after the ingest is exactly the concatenation of the batch's frames.
C6_ReplaceNotAppend ==
    [][ (IngestEnds /\ GoodOf(messages) # <<>> /\ SameShape(messages))
          => csi' = ExpectedCsi(messages) ]_vars

\* C7 (as claimed): with the buffer unset or without measurements, a refresh
\* changes neither the series nor the axis bounds.
C7_NoDataGuard ==
    [][ (pc = "idle" /\ (csi = None \/ csi.shape[1] = 0))
          => /\ series' = series
             /\ axis_min' = axis_min
             /\ axis_max' = axis_max ]_vars

\* C8: the axis maximum never decreases; a refresh leaves it at the larger of
\* the spectrum's maximum and its previous value; no step of an ingest
\* changes it.
C8_MaxBoundMonotonic ==
    [][ /\ axis_max' >= axis_max
        /\ (pc = "drain" \/ pc' = "drain") => axis_max' = axis_max
        /\ (series' # series \/ axis_max' # axis_max)
              => axis_max' = (IF series'.hi > axis_max THEN series'.hi ELSE axis_max)
      ]_vars

\* C8 witness: a refresh whose spectrum lies below the ceiling has kept it.
C8_Witness ==
    /\ series.points = NumAngles
    /\ series.hi < axis_max
    /\ axis_max > 0

\* Positions of the descending order that hold equal eigenvalues
TiedPositions ==
    { <<a, b>> \in (DOMAIN order) \X (DOMAIN order) :
        a < b /\ eig_val[order[a]] = eig_val[order[b]] }

\* C9 (as claimed): A-1 columns are kept, the discarded one has the largest
\* real part, and equal eigenvalues are ordered by their original index.
C9_SubspaceSeparation ==
    order # <<>>
        => /\ Len(Qn) = Len(eig_val) - 1
           /\ \A i \in DOMAIN eig_val : eig_val[order[1]][1] >= eig_val[i][1]
           /\ \/ \A t \in TiedPositions : order[t[1]] < order[t[2]]
              \/ \A t \in TiedPositions : order[t[1]] > order[t[2]]

\* C10 (as claimed): the drain is bounded by the call: an ingest takes no more
\* than the messages that were queued at the time of the call.
C10_BoundedDrain ==
    pc = "drain" => Len(messages) <= Len(entry_socket)

=============================================================================
